---- MODULE Spec2Model ----
(***************************************************************************)
(* A model of the words lambda of babtist/hpmaster (src/unnamed/part_000): *)
(* process start (init), request dispatch (HandleRequest), the GET handler *)
(* (handleGetWords, getWords, getPoorPerformanceWords, getRandomWords), the *)
(* POST handler (handleResults, updateWordStatistics) and the identity     *)
(* cache (getUserIdByEmail), and storeUserIfNotExists of the              *)
(* authentication lambda (src/unnamed/part_001).  DynamoDB is modelled by  *)
(* its tables; every store call is one atomic step that may also fail.     *)
(***************************************************************************)
EXTENDS Integers, Sequences, FiniteSets, TLC

\* ------------------------------------------------------------------ bounds
\* Number of request invocations that may run in one process.
NumInvocations == 2
\* Longest list of word results in one POST body.
MaxBatch == 2
\* Largest numWords value requested by a GET (besides the default of 10).
MaxNumWords == 4
\* Most word results submitted, over all requests, in the concurrent
\* statistics specification.
MaxOutcomes == 3
\* Most attempts a statistics record holds before the model stops accepting
\* further POST requests in the sequential specification.
MaxAttempts == 2
\* Most rand.Seed calls of a process before the sequential specification
\* stops accepting further GET requests.
MaxSeedCalls == 2
\* Number of storeUserIfNotExists calls the authentication lambda makes.
NumAuthCalls == 2

Invocations == 1..NumInvocations
AuthCalls == 1..NumAuthCalls

\* ------------------------------------------------------------------ values
NoEmail == "<none>"
Emails == {"e1", "e2"}
\* The word ids that occur in the Words table or in request bodies.
WordIds == {"A", "B", "C", "D"}
\* json: WordResults {word, isCorrect}
WordResults == [Word : WordIds, IsCorrect : BOOLEAN]

\* A statistics key: <<userId, word>>
StatKey(userId, word) == <<userId, word>>

RECURSIVE SeqsUpTo(_, _)
SeqsUpTo(S, n) ==
  IF n = 0 THEN {<<>>}
  ELSE LET shorter == SeqsUpTo(S, n - 1)
       IN shorter \cup {Append(s, x) : s \in {t \in shorter : Len(t) = n - 1}, x \in S}

Range(s) == {s[j] : j \in 1..Len(s)}

NoDuplicates(s) == \A j, k \in 1..Len(s) : j # k => s[j] # s[k]

Min(a, b) == IF a < b THEN a ELSE b

\* ------------------------------------------------------------------ state
VARIABLES
  phase,           \* "start", "ready", "exited" (log.Fatalf), "crashed" (runtime fatal error)
  initErr,         \* initErr != nil
  cachedWords,     \* the ids held by the cachedWords map
  userCache,       \* email -> userId (a function on the cached emails)
  userCacheMutex,  \* 0 when free, else the invocation that holds it
  WordsTable,      \* the ids of the records of the Words table
  scanFails,       \* whether the db.Scan of init returns an error
  UsersTable,      \* set of [userId, email]
  WordStatsTable,  \* <<userId, word>> -> [attempts, success, successRatio]
  usersQueries,    \* per invocation: the email-userId-index queries it issued
  pc,              \* per invocation: its place in the code
  event,           \* per invocation: the request
  userId,          \* per invocation: the id getUserIdByEmail returned
  i,               \* per invocation: loop index (handleResults, getRandomWords)
  wordStats,       \* per invocation: the in-memory WordStatistics
  limit,           \* per invocation: numWords
  poorPerformanceWords, \* per invocation: the words the index query returned
  allWords,        \* per invocation: getWords' allWords
  randomWords,     \* per invocation: getRandomWords' reservoir
  visited,         \* per invocation: words the range loop has passed
  r,               \* per invocation: the last rand.Intn result (-1: none)
  response,        \* per invocation: [status, words], status 0 while none
  authPc,          \* per storeUserIfNotExists call: its place in the code
  authEmail,       \* per storeUserIfNotExists call: its email argument
  authUserId,      \* per storeUserIfNotExists call: uuid.New().String()
  seedCalls        \* the rand.Seed calls the process has made

processVars == <<phase, initErr, cachedWords, userCache, userCacheMutex>>
storeVars == <<WordsTable, scanFails, UsersTable, WordStatsTable, usersQueries>>
getVars == <<limit, poorPerformanceWords, allWords, randomWords, visited, r>>
postVars == <<i, wordStats>>
invVars == <<pc, event, userId, response>>
authVars == <<authPc, authEmail, authUserId>>
vars == <<processVars, storeVars, getVars, postVars, invVars, authVars, seedCalls>>

NoResponse == [status |-> 0, words |-> <<>>]
Respond(p, status, words) ==
  response' = [response EXCEPT ![p] = [status |-> status, words |-> words]]

NoStats == [attempts |-> 0, success |-> 0, successRatio |-> 0]

\* ------------------------------------------------------------------ init()
\* InitErrOf without the test of len(words) == 0 (lines 53-55 dropped).
InitErrOf_ScanErrorOnly(scanErr, words) == scanErr

\* part_000:49-55: initErr is set when the scan fails or returns no record.
InitErrOf(scanErr, words) == scanErr \/ Cardinality(words) = 0

\* CachedWordsOf with the loop of lines 56-58 missing one record.
CachedWordsOf_SkipsOne(scanErr, words) ==
  IF scanErr \/ words = {} THEN {} ELSE words \ {CHOOSE w \in words : TRUE}

\* part_000:56-58: the records of a successful scan are put in cachedWords.
CachedWordsOf(scanErr, words) == IF scanErr THEN {} ELSE words

\* func init(): runs once, before any request.
init ==
  /\ phase = "start"
  /\ UNCHANGED <<authVars, seedCalls>>
  /\ phase' = "ready"
  /\ initErr' = InitErrOf(scanFails, WordsTable)
  /\ cachedWords' = CachedWordsOf(scanFails, WordsTable)
  /\ UNCHANGED <<userCache, userCacheMutex, storeVars, getVars, postVars, invVars>>

\* ------------------------------------------------------------------ requests
Digits == <<"0", "1", "2", "3", "4", "5", "6", "7", "8", "9">>
IsDigit(c) == \E d \in 1..10 : Digits[d] = c
DigitVal(c) == (CHOOSE d \in 1..10 : Digits[d] = c) - 1

RECURSIVE DigitsValue(_)
DigitsValue(s) ==
  IF s = <<>> THEN 0
  ELSE 10 * DigitsValue(SubSeq(s, 1, Len(s) - 1)) + DigitVal(s[Len(s)])

\* strconv.Atoi on a string given as its characters: an optional sign and
\* then one or more decimal digits; anything else is an error.
Atoi(s) ==
  LET signed == s # <<>> /\ s[1] \in {"-", "+"}
      body == IF signed THEN Tail(s) ELSE s
  IN IF body = <<>> \/ \E j \in 1..Len(body) : ~IsDigit(body[j])
     THEN [err |-> TRUE, n |-> 0]
     ELSE [err |-> FALSE,
           n |-> IF signed /\ s[1] = "-" THEN 0 - DigitsValue(body) ELSE DigitsValue(body)]

\* NumWordsStrOf without the default (lines 133-135 dropped).
NumWordsStrOf_NoDefault(s) == s

\* part_000:132-135: a missing numWords parameter reads as "10".
NumWordsStrOf(s) == IF s = <<>> THEN <<"1", "0">> ELSE s

\* NumWordsRejected with the test written numWords < 0.
NumWordsRejected_NegativeOnly(numWords) == numWords.err \/ numWords.n < 0

\* part_000:138: err != nil || numWords <= 0
NumWordsRejected(numWords) == numWords.err \/ numWords.n <= 0

\* The numWords parameters that are not a number or not a positive one.
InvalidNumWordsStrs == {<<"a">>, <<"1", "a">>, <<"0">>, <<"-", "1">>}

\* The numWords query parameters requests carry (<<>>: the parameter is
\* missing).
NumWordsStrs ==
  {<<>>} \cup InvalidNumWordsStrs \cup {<<Digits[n + 1]>> : n \in 1..MaxNumWords}

InvalidBody == [valid |-> FALSE, results |-> <<>>]
ValidBody(results) == [valid |-> TRUE, results |-> results]

GetEvents ==
  [method : {"GET"}, email : Emails \cup {NoEmail}, numWords : NumWordsStrs,
   body : {ValidBody(<<>>)}]
PostEvents(words) ==
  [method : {"POST"}, email : Emails \cup {NoEmail}, numWords : {<<>>},
   body : {InvalidBody}
          \cup {ValidBody(s) : s \in SeqsUpTo([Word : words, IsCorrect : BOOLEAN], MaxBatch)}]
OtherEvents ==
  [method : {"PUT"}, email : {NoEmail}, numWords : {<<>>}, body : {ValidBody(<<>>)}]

\* part_000:142-150 (GET) and 281-296 (POST): what the handler does with the
\* (userId, err) that getUserIdByEmail returns.
AfterGetUserId(p, id, err) ==
  IF err
  THEN /\ Respond(p, 400, <<>>)
       /\ pc' = [pc EXCEPT ![p] = "done"]
       /\ UNCHANGED <<userId, i>>
  ELSE /\ userId' = [userId EXCEPT ![p] = id]
       /\ IF event[p].method = "GET"
          THEN /\ pc' = [pc EXCEPT ![p] = "gw_query"]
               /\ UNCHANGED <<response, i>>
          ELSE IF ~event[p].body.valid
          THEN /\ Respond(p, 400, <<>>)
               /\ pc' = [pc EXCEPT ![p] = "done"]
               /\ UNCHANGED i
          ELSE /\ i' = [i EXCEPT ![p] = 1]
               /\ pc' = [pc EXCEPT ![p] = "hr_loop"]
               /\ UNCHANGED response

\* func HandleRequest, with the handlers' first lines (extractEmail and the
\* numWords check), which touch no shared state.
HandleRequest(p, ev) ==
  /\ phase = "ready"
  /\ pc[p] = "idle"
  /\ UNCHANGED <<authVars, seedCalls>>
  /\ IF initErr
     THEN \* log.Fatalf: the process exits
          /\ phase' = "exited"
          /\ UNCHANGED <<initErr, cachedWords, userCache, userCacheMutex, storeVars,
                         getVars, postVars, invVars>>
     ELSE /\ event' = [event EXCEPT ![p] = ev]
          /\ UNCHANGED <<processVars, storeVars, postVars, userId, poorPerformanceWords,
                         allWords, randomWords, visited, r>>
          /\ IF ev.method \notin {"GET", "POST"}
             THEN /\ Respond(p, 405, <<>>)
                  /\ pc' = [pc EXCEPT ![p] = "done"]
                  /\ UNCHANGED limit
             ELSE IF ev.email = NoEmail
             THEN /\ Respond(p, 401, <<>>)
                  /\ pc' = [pc EXCEPT ![p] = "done"]
                  /\ UNCHANGED limit
             ELSE IF ev.method = "POST"
             THEN /\ pc' = [pc EXCEPT ![p] = "uc_check"]
                  /\ UNCHANGED <<response, limit>>
             ELSE LET numWords == Atoi(NumWordsStrOf(ev.numWords))
                  IN IF NumWordsRejected(numWords)
                     THEN /\ Respond(p, 400, <<>>)
                          /\ pc' = [pc EXCEPT ![p] = "done"]
                          /\ UNCHANGED limit
                     ELSE /\ limit' = [limit EXCEPT ![p] = numWords.n]
                          /\ pc' = [pc EXCEPT ![p] = "uc_check"]
                          /\ UNCHANGED response

\* ------------------------------------------------------------------ getUserIdByEmail
\* Whether another invocation is executing userCache[email] = *userId
\* (part_000:361) while p reads the map.
MapWriters(p) == {q \in Invocations \ {p} : pc[q] = "uc_insert"}

\* part_000:332: the read of userCache made without the mutex.  The outcomes
\* are "miss", "crash" or a hit <<"hit", id>>.  With no write in progress the
\* read is an ordinary lookup.  A read that overlaps an insert is a data
\* race: the runtime may stop the process (fatal error: concurrent map read
\* and map write), the lookup may miss, find an entry that was there, or
\* find the entry being inserted before its value is stored (the empty id).
UnlockedRead(p, email) ==
  LET ordinary == IF email \in DOMAIN userCache
                  THEN {<<"hit", userCache[email]>>} ELSE {<<"miss", "">>}
  IN IF MapWriters(p) = {} THEN ordinary
     ELSE ordinary \cup {<<"miss", "">>, <<"crash", "">>}
          \cup {<<"hit", "">> : q \in {w \in MapWriters(p) : event[w].email = email}}

getUserIdByEmail_Check(p) ==
  /\ phase = "ready"
  /\ pc[p] = "uc_check"
  /\ UNCHANGED <<authVars, seedCalls>>
  /\ \E out \in UnlockedRead(p, event[p].email) :
       CASE out[1] = "crash" ->
              /\ phase' = "crashed"
              /\ UNCHANGED <<initErr, cachedWords, userCache, userCacheMutex, storeVars,
                             getVars, postVars, invVars>>
         [] out[1] = "miss" ->
              /\ pc' = [pc EXCEPT ![p] = "uc_lock"]
              /\ UNCHANGED <<processVars, storeVars, getVars, postVars, event, userId,
                             response>>
         [] OTHER ->
              /\ AfterGetUserId(p, out[2], FALSE)
              /\ UNCHANGED <<processVars, storeVars, getVars, wordStats, event>>

\* CacheHit for a function without the second look (lines 340-342 dropped).
CacheHit_NoSecondLook(cache, email) == FALSE

\* part_000:340: userId, exists := userCache[email], read under the mutex.
CacheHit(cache, email) == email \in DOMAIN cache

\* part_000:336-342: Lock, then the second look at the cache.
getUserIdByEmail_Lock(p) ==
  /\ phase = "ready"
  /\ pc[p] = "uc_lock"
  /\ UNCHANGED <<authVars, seedCalls>>
  /\ userCacheMutex = 0
  /\ IF CacheHit(userCache, event[p].email)
     THEN \* hit after the lock; the deferred Unlock runs at the return
          /\ AfterGetUserId(p, userCache[event[p].email], FALSE)
          /\ UNCHANGED <<processVars, storeVars, getVars, wordStats, event>>
     ELSE /\ userCacheMutex' = p
          /\ pc' = [pc EXCEPT ![p] = "uc_query"]
          /\ UNCHANGED <<phase, initErr, cachedWords, userCache, storeVars, getVars,
                         postVars, event, userId, response>>

\* The records the email-userId-index holds for an email.
UsersByEmail(email) == {u \in UsersTable : u.email = email}

\* CacheAfterNotFound with the miss remembered as an entry with no id.
CacheAfterNotFound_Remembered(cache, email) ==
  [e \in DOMAIN cache \cup {email} |-> IF e = email THEN "" ELSE cache[e]]

\* part_000:357-359: the return for an empty result writes nothing to
\* userCache.
CacheAfterNotFound(cache, email) == cache

\* part_000:344-360: the query of the Users table.
getUserIdByEmail_Query(p) ==
  /\ phase = "ready"
  /\ pc[p] = "uc_query"
  /\ UNCHANGED <<authVars, seedCalls>>
  /\ usersQueries' = [usersQueries EXCEPT ![p] = @ + 1]
  /\ UNCHANGED <<WordsTable, scanFails, UsersTable, WordStatsTable>>
  /\ \/ \* err != nil
        /\ userCacheMutex' = 0
        /\ AfterGetUserId(p, "", TRUE)
        /\ UNCHANGED <<phase, initErr, cachedWords, userCache, getVars, wordStats, event>>
     \/ \* len(result.Items) == 0
        /\ UsersByEmail(event[p].email) = {}
        /\ userCache' = CacheAfterNotFound(userCache, event[p].email)
        /\ userCacheMutex' = 0
        /\ AfterGetUserId(p, "", TRUE)
        /\ UNCHANGED <<phase, initErr, cachedWords, getVars, wordStats, event>>
     \/ \* result.Items[0]
        \E u \in UsersByEmail(event[p].email) :
          /\ userId' = [userId EXCEPT ![p] = u.userId]
          /\ pc' = [pc EXCEPT ![p] = "uc_insert"]
          /\ UNCHANGED <<processVars, getVars, postVars, event, response>>

\* part_000:361-362: the insert, the deferred Unlock and the return.
getUserIdByEmail_Insert(p) ==
  /\ phase = "ready"
  /\ pc[p] = "uc_insert"
  /\ UNCHANGED <<authVars, seedCalls>>
  /\ userCache' = [e \in DOMAIN userCache \cup {event[p].email} |->
                     IF e = event[p].email THEN userId[p] ELSE userCache[e]]
  /\ userCacheMutex' = 0
  /\ AfterGetUserId(p, userId[p], FALSE)
  /\ UNCHANGED <<phase, initErr, cachedWords, storeVars, getVars, wordStats, event>>

\* ------------------------------------------------------------------ updateWordStatistics
\* fmt.Sprintf("%f", float32(success) / float32(attempts)) as the store
\* holds it: a number with six decimals, given here in millionths.  The
\* float32 quotient rounded to six decimals is the exact quotient rounded to
\* the nearest millionth for every attempts < 29, which covers the model.
FormatSuccessRatio(success, attempts) ==
  (2 * success * 1000000 + attempts) \div (2 * attempts)

\* IncrementStats with the ratio taken before Success++ (lines 399-402 swapped).
IncrementStats_RatioBeforeSuccess(stats, isCorrect) ==
  LET attempts == stats.attempts + 1
      success == IF isCorrect THEN stats.success + 1 ELSE stats.success
  IN [attempts |-> attempts, success |-> success,
      successRatio |-> FormatSuccessRatio(stats.success, attempts)]

\* IncrementStats with Success++ made whatever the outcome (line 399 dropped).
IncrementStats_IgnoreOutcome(stats, isCorrect) ==
  LET attempts == stats.attempts + 1
      success == stats.success + 1
  IN [attempts |-> attempts, success |-> success,
      successRatio |-> FormatSuccessRatio(success, attempts)]

\* part_000:398-402: the in-memory update of the record read (or of the
\* zero record when there was none).
IncrementStats(stats, isCorrect) ==
  LET attempts == stats.attempts + 1
      success == IF isCorrect THEN stats.success + 1 ELSE stats.success
  IN [attempts |-> attempts, success |-> success,
      successRatio |-> FormatSuccessRatio(success, attempts)]

\* UpdateItemSet with an update expression that sets attempts only.
UpdateItemSet_AttemptsOnly(table, key, stats) ==
  [k \in DOMAIN table \cup {key} |->
     IF k # key THEN table[k]
     ELSE IF key \in DOMAIN table THEN [table[key] EXCEPT !.attempts = stats.attempts]
     ELSE [attempts |-> stats.attempts, success |-> 0, successRatio |-> 0]]

\* part_000:404-423: UpdateItem with SET attempts, success, successRatio;
\* the item is created when the key has none.
UpdateItemSet(table, key, stats) ==
  [k \in DOMAIN table \cup {key} |-> IF k = key THEN stats ELSE table[k]]

\* The word result the handleResults loop is at (part_000:297).
CurrentResult(p) == event[p].body.results[i[p]]

\* part_000:374-402: GetItem and the in-memory update.
updateWordStatistics_GetItem(p) ==
  /\ phase = "ready"
  /\ pc[p] = "hr_loop"
  /\ UNCHANGED <<authVars, seedCalls>>
  /\ i[p] <= Len(event[p].body.results)
  /\ UNCHANGED <<processVars, storeVars, getVars, event, userId, i>>
  /\ \/ \* err != nil: handleResults answers 500
        /\ Respond(p, 500, <<>>)
        /\ pc' = [pc EXCEPT ![p] = "done"]
        /\ UNCHANGED wordStats
     \/ LET key == StatKey(userId[p], CurrentResult(p).Word)
            item == IF key \in DOMAIN WordStatsTable THEN WordStatsTable[key] ELSE NoStats
        IN /\ wordStats' = [wordStats EXCEPT ![p] =
                              IncrementStats(item, CurrentResult(p).IsCorrect)]
           /\ pc' = [pc EXCEPT ![p] = "uws_update"]
           /\ UNCHANGED response

\* NextResult for a loop that passes over the result after the one applied.
NextResult_SkipsOne(idx) == idx + 2

\* part_000:296: the range loop goes on to the next element of
\* request.Results.
NextResult(idx) == idx + 1

\* part_000:417-428: UpdateItem.
updateWordStatistics_UpdateItem(p) ==
  /\ phase = "ready"
  /\ pc[p] = "uws_update"
  /\ UNCHANGED <<authVars, seedCalls>>
  /\ UNCHANGED <<processVars, WordsTable, scanFails, UsersTable, usersQueries, getVars,
                 event, userId, wordStats>>
  /\ \/ \* err != nil: the table is as it was, handleResults answers 500
        /\ Respond(p, 500, <<>>)
        /\ pc' = [pc EXCEPT ![p] = "done"]
        /\ UNCHANGED <<WordStatsTable, i>>
     \/ /\ WordStatsTable' =
             UpdateItemSet(WordStatsTable, StatKey(userId[p], CurrentResult(p).Word),
                           wordStats[p])
        /\ i' = [i EXCEPT ![p] = NextResult(i[p])]
        /\ pc' = [pc EXCEPT ![p] = "hr_loop"]
        /\ UNCHANGED response

\* part_000:305-308: every result is applied.
handleResults_Return(p) ==
  /\ phase = "ready"
  /\ pc[p] = "hr_loop"
  /\ UNCHANGED <<authVars, seedCalls>>
  /\ i[p] > Len(event[p].body.results)
  /\ Respond(p, 200, <<>>)
  /\ pc' = [pc EXCEPT ![p] = "done"]
  /\ UNCHANGED <<processVars, storeVars, getVars, postVars, event, userId>>

\* ------------------------------------------------------------------ getWords
\* part_000:178: Limit = limit / 2 (integer division).
QueryLimit(lim) == lim \div 2

\* RatioOrdered for ScanIndexForward = false: higher ratio first.
RatioOrdered_Descending(a, b) == a >= b

\* ScanIndexForward = true on userId-successRatio-index: lower ratio first.
RatioOrdered(a, b) == a <= b

Perms(S) == {f \in [1..Cardinality(S) -> S] : \A x \in S : \E j \in DOMAIN f : f[j] = x}

\* The words of the user's statistics records.
UserStatWords(userID) == {k[2] : k \in {k \in DOMAIN WordStatsTable : k[1] = userID}}

\* part_000:178-181: whether db.Query takes the input.  QueryInput.Limit has
\* the minimum 1 (aws-sdk-go checks it before sending, DynamoDB when it
\* receives it), so the Limit 0 of limit = 1 makes db.Query return an error.
LimitAccepted(lim) == QueryLimit(lim) >= 1

\* part_000:170-181: the results the index query can give: the user's
\* records in index order (records of equal ratio in either order), cut to
\* Limit; none when the Limit is refused.
QueryPoorPerformance(userID, lim) ==
  {SubSeq(s, 1, Min(QueryLimit(lim), Len(s))) :
     s \in {q \in IF LimitAccepted(lim) THEN Perms(UserStatWords(userID)) ELSE {} :
              \A j, k \in DOMAIN q :
                j < k => RatioOrdered(WordStatsTable[StatKey(userID, q[j])].successRatio,
                                      WordStatsTable[StatKey(userID, q[k])].successRatio)}}

\* CompleteWords without the look at cachedWords.
CompleteWords_KeepAll(ws) == ws

\* part_000:197-203: only the words cachedWords holds are kept.
RECURSIVE CompleteWords(_)
CompleteWords(ws) ==
  IF ws = <<>> THEN <<>>
  ELSE IF Head(ws) \in cachedWords THEN <<Head(ws)>> \o CompleteWords(Tail(ws))
  ELSE CompleteWords(Tail(ws))

\* AppendUnseen without the look at seenWords.
RECURSIVE AppendUnseen_NoSeenCheck(_, _)
AppendUnseen_NoSeenCheck(all, ws) ==
  IF ws = <<>> THEN all ELSE AppendUnseen_NoSeenCheck(Append(all, Head(ws)), Tail(ws))

\* AppendUnseen with the new word put in front of the list.
RECURSIVE AppendUnseen_InFront(_, _)
AppendUnseen_InFront(all, ws) ==
  IF ws = <<>> THEN all
  ELSE AppendUnseen_InFront(IF Head(ws) \in Range(all) THEN all ELSE <<Head(ws)>> \o all,
                            Tail(ws))

\* part_000:247-252 and 258-263: append the words not yet in seenWords
\* (seenWords holds exactly the words of allWords).
RECURSIVE AppendUnseen(_, _)
AppendUnseen(all, ws) ==
  IF ws = <<>> THEN all
  ELSE AppendUnseen(IF Head(ws) \in Range(all) THEN all ELSE Append(all, Head(ws)), Tail(ws))

\* part_000:267-269
Truncate(all, lim) == IF Len(all) > lim THEN SubSeq(all, 1, lim) ELSE all

\* part_000:256: the argument of getRandomWords.
RandomLimit(p) == limit[p] - Len(allWords[p])

\* part_000:224: the values rand.Intn(i + 1) can return.
RandIntn(n) == 0..(n - 1)

\* ReservoirStep with the fill test written i <= limit.
ReservoirStep_FillOneMore(reservoir, idx, n, word, rr) ==
  IF idx <= n THEN Append(reservoir, word)
  ELSE IF rr < n THEN [reservoir EXCEPT ![rr + 1] = word]
  ELSE reservoir

\* part_000:219-228: one pass of the range loop of getRandomWords, for the
\* word at position idx with the draw rr.
ReservoirStep(reservoir, idx, n, word, rr) ==
  IF idx < n THEN Append(reservoir, word)
  ELSE IF rr < n THEN [reservoir EXCEPT ![rr + 1] = word]
  ELSE reservoir

\* part_000:237-256: getPoorPerformanceWords, the first loop of getWords and
\* the call of getRandomWords.
getWords_Query(p) ==
  /\ phase = "ready"
  /\ pc[p] = "gw_query"
  /\ UNCHANGED authVars
  /\ UNCHANGED <<processVars, storeVars, wordStats, event, userId, limit>>
  /\ \/ \* db.Query returns an error: handleGetWords answers 500
        /\ Respond(p, 500, <<>>)
        /\ pc' = [pc EXCEPT ![p] = "done"]
        /\ UNCHANGED <<poorPerformanceWords, allWords, randomWords, visited, r, i,
                       seedCalls>>
     \/ \E items \in QueryPoorPerformance(userId[p], limit[p]) :
          LET all == AppendUnseen(<<>>, CompleteWords(items))
          IN /\ poorPerformanceWords' = [poorPerformanceWords EXCEPT ![p] = items]
             /\ allWords' = [allWords EXCEPT ![p] = all]
             /\ IF Len(all) < limit[p]
                THEN \* getRandomWords starts with rand.Seed (part_000:214)
                     /\ seedCalls' = seedCalls + 1
                     /\ randomWords' = [randomWords EXCEPT ![p] = <<>>]
                     /\ visited' = [visited EXCEPT ![p] = {}]
                     /\ i' = [i EXCEPT ![p] = 0]
                     /\ r' = [r EXCEPT ![p] = 0 - 1]
                     /\ pc' = [pc EXCEPT ![p] = "grw_loop"]
                     /\ UNCHANGED response
                ELSE /\ Respond(p, 200, Truncate(all, limit[p]))
                     /\ pc' = [pc EXCEPT ![p] = "done"]
                     /\ UNCHANGED <<randomWords, visited, r, i, seedCalls>>

\* part_000:218-230: one iteration of "for _, word := range cachedWords";
\* the order of a map range is not fixed, so any word not yet passed can be
\* the next one.
getRandomWords_Step(p) ==
  /\ phase = "ready"
  /\ pc[p] = "grw_loop"
  /\ UNCHANGED <<authVars, seedCalls>>
  /\ \E word \in cachedWords \ visited[p] :
       \E rr \in IF i[p] < RandomLimit(p) THEN {0 - 1} ELSE RandIntn(i[p] + 1) :
         /\ randomWords' = [randomWords EXCEPT ![p] =
                              ReservoirStep(randomWords[p], i[p], RandomLimit(p), word, rr)]
         /\ r' = [r EXCEPT ![p] = rr]
         /\ visited' = [visited EXCEPT ![p] = visited[p] \cup {word}]
         /\ i' = [i EXCEPT ![p] = i[p] + 1]
  /\ UNCHANGED <<processVars, storeVars, wordStats, invVars, limit, poorPerformanceWords,
                 allWords>>

\* part_000:232 and 258-271, 156-165: the loop is over; the random words
\* are merged, the list is cut to limit and returned with status 200.
getWords_Merge(p) ==
  /\ phase = "ready"
  /\ pc[p] = "grw_loop"
  /\ UNCHANGED <<authVars, seedCalls>>
  /\ visited[p] = cachedWords
  /\ allWords' = [allWords EXCEPT ![p] =
                    Truncate(AppendUnseen(allWords[p], randomWords[p]), limit[p])]
  /\ Respond(p, 200, allWords'[p])
  /\ pc' = [pc EXCEPT ![p] = "done"]
  /\ UNCHANGED <<processVars, storeVars, postVars, event, userId, limit,
                 poorPerformanceWords, randomWords, visited, r>>

\* ------------------------------------------------------------------ specifications
NoEvent == [method |-> "", email |-> NoEmail, numWords |-> <<>>, body |-> ValidBody(<<>>)]

\* No invocation and no call of the authentication lambda has started.
InvocationsIdle ==
  /\ pc = [p \in Invocations |-> "idle"]
  /\ event = [p \in Invocations |-> NoEvent]
  /\ userId = [p \in Invocations |-> ""]
  /\ i = [p \in Invocations |-> 0]
  /\ wordStats = [p \in Invocations |-> NoStats]
  /\ limit = [p \in Invocations |-> 0]
  /\ poorPerformanceWords = [p \in Invocations |-> <<>>]
  /\ allWords = [p \in Invocations |-> <<>>]
  /\ randomWords = [p \in Invocations |-> <<>>]
  /\ visited = [p \in Invocations |-> {}]
  /\ r = [p \in Invocations |-> 0 - 1]
  /\ response = [p \in Invocations |-> NoResponse]
  /\ authPc = [a \in AuthCalls |-> "idle"]
  /\ authEmail = [a \in AuthCalls |-> NoEmail]
  /\ authUserId = [a \in AuthCalls |-> ""]

\* The Users table: the authentication lambda has stored a user for e1 and
\* none for e2; u0 is a user whose requests other processes serve.
InitialUsers == {[userId |-> "u1", email |-> "e1"], [userId |-> "u0", email |-> "e0"]}

\* The statistics of user u0 at the start of the process: B, never correct.
OtherUsersStats ==
  [k \in {StatKey("u0", "B")} |-> [attempts |-> 1, success |-> 0, successRatio |-> 0]]

\* A process whose init() loaded the given catalog, with the given identity cache.
ProcessReady(words, cache) ==
  /\ phase = "ready"
  /\ initErr = FALSE
  /\ scanFails = FALSE
  /\ WordsTable = words
  /\ cachedWords = words
  /\ userCache = cache
  /\ userCacheMutex = 0
  /\ seedCalls = 0
  /\ UsersTable = InitialUsers
  /\ usersQueries = [p \in Invocations |-> 0]

\* --- SpecStats: concurrent POST requests of one user, identity cache warm.
StatsWords == {"A"}
StatsEvents ==
  [method : {"POST"}, email : {"e1"}, numWords : {<<>>},
   body : {ValidBody(s) : s \in SeqsUpTo([Word : StatsWords, IsCorrect : BOOLEAN], MaxBatch)
                                   \ {<<>>}}]

RECURSIVE CountIn(_, _, _)
CountIn(results, word, onlyCorrect) ==
  IF results = <<>> THEN 0
  ELSE (IF Head(results).Word = word /\ (~onlyCorrect \/ Head(results).IsCorrect)
        THEN 1 ELSE 0) + CountIn(Tail(results), word, onlyCorrect)

\* The number of results for a word in the bodies of invocations 1..n.
RECURSIVE SubmittedBy(_, _, _)
SubmittedBy(n, word, onlyCorrect) ==
  IF n = 0 THEN 0
  ELSE CountIn(event[n].body.results, word, onlyCorrect) + SubmittedBy(n - 1, word, onlyCorrect)

RECURSIVE OutcomesBy(_)
OutcomesBy(n) == IF n = 0 THEN 0 ELSE Len(event[n].body.results) + OutcomesBy(n - 1)

InitStats ==
  /\ ProcessReady(WordIds, [e \in {"e1"} |-> "u1"])
  /\ WordStatsTable = <<>>
  /\ InvocationsIdle

NextStats ==
  \E p \in Invocations :
    \/ pc[p] = "idle" /\ \E ev \in StatsEvents :
         /\ OutcomesBy(NumInvocations) + Len(ev.body.results) <= MaxOutcomes
         /\ HandleRequest(p, ev)
    \/ getUserIdByEmail_Check(p)
    \/ updateWordStatistics_GetItem(p)
    \/ updateWordStatistics_UpdateItem(p)
    \/ handleResults_Return(p)

SpecStats == InitStats /\ [][NextStats]_vars

\* --- SpecCache: concurrent requests that resolve an email, identity cache cold.
CacheEvents ==
  [method : {"POST"}, email : Emails, numWords : {<<>>}, body : {ValidBody(<<>>)}]

InitCache ==
  /\ ProcessReady(WordIds, <<>>)
  /\ WordStatsTable = <<>>
  /\ InvocationsIdle

NextCache ==
  \E p \in Invocations :
    \/ \E ev \in CacheEvents : HandleRequest(p, ev)
    \/ getUserIdByEmail_Check(p)
    \/ getUserIdByEmail_Lock(p)
    \/ getUserIdByEmail_Query(p)
    \/ getUserIdByEmail_Insert(p)
    \/ handleResults_Return(p)

SpecCache == InitCache /\ [][NextCache]_vars

\* --- SpecCacheFair: SpecCache under a fair scheduler.  Every goroutine that
\* can take its next step takes it, every store query returns, and a
\* goroutine waiting in Lock gets the mutex when it is released again and
\* again (sync.Mutex hands the lock to a starving waiter).  The arrival of
\* requests is not forced.
FairCache ==
  \A p \in Invocations :
    /\ WF_vars(getUserIdByEmail_Check(p))
    /\ SF_vars(getUserIdByEmail_Lock(p))
    /\ WF_vars(getUserIdByEmail_Query(p))
    /\ WF_vars(getUserIdByEmail_Insert(p))
    /\ WF_vars(handleResults_Return(p))

SpecCacheFair == SpecCache /\ FairCache

\* ------------------------------------------------------------------ claims: statistics
Abs(x) == IF x < 0 THEN 0 - x ELSE x

\* Every POST request that was started has answered 200.
AllPostsSucceeded ==
  \A p \in Invocations :
    /\ pc[p] \in {"idle", "done"}
    /\ pc[p] = "done" => response[p].status = 200

\* C1: no lost updates.  Once every concurrent POST has answered 200, the
\* record of each (userId, word) pair holds attempts = the number of results
\* submitted for the pair and success = the number of correct ones.
C1_NoLostUpdates ==
  AllPostsSucceeded =>
    \A w \in StatsWords :
      SubmittedBy(NumInvocations, w, FALSE) > 0 =>
        /\ StatKey("u1", w) \in DOMAIN WordStatsTable
        /\ WordStatsTable[StatKey("u1", w)].attempts = SubmittedBy(NumInvocations, w, FALSE)
        /\ WordStatsTable[StatKey("u1", w)].success = SubmittedBy(NumInvocations, w, TRUE)

\* C7 as stated: every stored record has attempts >= 1, 0 <= success <=
\* attempts and a successRatio that is exactly success / attempts.
C7_RatioIsExactQuotient ==
  \A k \in DOMAIN WordStatsTable :
    /\ WordStatsTable[k].attempts >= 1
    /\ 0 <= WordStatsTable[k].success
    /\ WordStatsTable[k].success <= WordStatsTable[k].attempts
    /\ WordStatsTable[k].successRatio * WordStatsTable[k].attempts
         = WordStatsTable[k].success * 1000000

\* C7 (amended): under any interleaving of concurrent updateWordStatistics
\* calls every stored record has attempts >= 1, 0 <= success <= attempts and
\* a successRatio that is success / attempts cut to the six decimals of %f
\* (less than a millionth from the quotient of the stored success and
\* attempts).
C7_RecordInvariant ==
  \A k \in DOMAIN WordStatsTable :
    /\ WordStatsTable[k].attempts >= 1
    /\ 0 <= WordStatsTable[k].success
    /\ WordStatsTable[k].success <= WordStatsTable[k].attempts
    /\ Abs(WordStatsTable[k].successRatio * WordStatsTable[k].attempts
             - WordStatsTable[k].success * 1000000)
         < WordStatsTable[k].attempts

\* C7 witness: a record written by the third update of a pair, one of them
\* correct, while the table was shared by two POST requests.
C7_Witness ==
  /\ \E k \in DOMAIN WordStatsTable :
       WordStatsTable[k] = [attempts |-> 3, success |-> 1, successRatio |-> 333333]
  /\ \A p \in {1, 2} : pc[p] # "idle"

\* C8: from one store state to the next no record disappears and neither
\* its attempts nor its success decreases.
C8_MonotonicCounters ==
  [][\A k \in DOMAIN WordStatsTable :
       /\ k \in DOMAIN WordStatsTable'
       /\ WordStatsTable'[k].attempts >= WordStatsTable[k].attempts
       /\ WordStatsTable'[k].success >= WordStatsTable[k].success]_vars

\* ------------------------------------------------------------------ claims: identity cache
\* C5: when every concurrent request resolves the same email, not cached at
\* the start and with a user record in the store, and no store query fails,
\* no caller is lost to a runtime abort, exactly one store query is issued
\* for the email and every caller gets the id of the user record.
C5_OneQuerySameId ==
  (\A p \in Invocations : event[p].email = "e1") =>
    /\ phase # "crashed"
    /\ (\A p \in Invocations : pc[p] = "done" /\ response[p].status = 200) =>
         /\ Cardinality({p \in Invocations : usersQueries[p] > 0}) = 1
         /\ \A p \in Invocations : userId[p] = "u1"

\* --- Spec: one process from its start, serving one request at a time.
\* The Words table a process may find at its start.
WordsTables == {{}, {"A", "B"}, {"A", "B", "C", "D"}}

\* The words POST bodies name: one of the catalog and one that may be
\* missing from it.
PostedWords == {"A", "C"}

SeqEvents == GetEvents \cup OtherEvents \cup PostEvents(PostedWords)

\* The attempts stored for a word of user u1 (0 when there is no record).
AttemptsOf(w) ==
  IF StatKey("u1", w) \in DOMAIN WordStatsTable
  THEN WordStatsTable[StatKey("u1", w)].attempts ELSE 0

\* The request keeps every record within MaxAttempts.
WithinAttempts(ev) ==
  \A w \in WordIds : AttemptsOf(w) + CountIn(ev.body.results, w, FALSE) <= MaxAttempts

\* The request keeps the count of rand.Seed calls within MaxSeedCalls.
WithinSeedCalls(ev) == ev.method = "GET" => seedCalls < MaxSeedCalls

\* The invocation has answered; the next request gets a fresh one.
Finish(p) ==
  /\ phase = "ready"
  /\ pc[p] = "done"
  /\ UNCHANGED <<authVars, seedCalls>>
  /\ pc' = [pc EXCEPT ![p] = "idle"]
  /\ event' = [event EXCEPT ![p] = NoEvent]
  /\ userId' = [userId EXCEPT ![p] = ""]
  /\ i' = [i EXCEPT ![p] = 0]
  /\ wordStats' = [wordStats EXCEPT ![p] = NoStats]
  /\ limit' = [limit EXCEPT ![p] = 0]
  /\ poorPerformanceWords' = [poorPerformanceWords EXCEPT ![p] = <<>>]
  /\ allWords' = [allWords EXCEPT ![p] = <<>>]
  /\ randomWords' = [randomWords EXCEPT ![p] = <<>>]
  /\ visited' = [visited EXCEPT ![p] = {}]
  /\ r' = [r EXCEPT ![p] = 0 - 1]
  /\ response' = [response EXCEPT ![p] = NoResponse]
  /\ usersQueries' = [usersQueries EXCEPT ![p] = 0]
  /\ UNCHANGED <<processVars, WordsTable, scanFails, UsersTable, WordStatsTable>>

Init ==
  /\ phase = "start"
  /\ initErr = FALSE
  /\ cachedWords = {}
  /\ userCache = <<>>
  /\ userCacheMutex = 0
  /\ seedCalls = 0
  /\ WordsTable \in WordsTables
  /\ scanFails \in BOOLEAN
  /\ UsersTable = InitialUsers
  /\ WordStatsTable = OtherUsersStats
  /\ usersQueries = [p \in Invocations |-> 0]
  /\ InvocationsIdle

Next ==
  \/ init
  \/ pc[1] = "idle" /\ \E ev \in SeqEvents :
                             WithinAttempts(ev) /\ WithinSeedCalls(ev) /\ HandleRequest(1, ev)
  \/ getUserIdByEmail_Check(1)
  \/ getUserIdByEmail_Lock(1)
  \/ getUserIdByEmail_Query(1)
  \/ getUserIdByEmail_Insert(1)
  \/ getWords_Query(1)
  \/ getRandomWords_Step(1)
  \/ getWords_Merge(1)
  \/ updateWordStatistics_GetItem(1)
  \/ updateWordStatistics_UpdateItem(1)
  \/ handleResults_Return(1)
  \/ Finish(1)

Spec == Init /\ [][Next]_vars

\* --- SpecScenario: catalog {A,B,C,D,E}; the user has statistics for C
\* (ratio 0.2) and D (ratio 0.4) and asks for three words.
ScenarioWords == {"A", "B", "C", "D", "E"}
ScenarioEvent ==
  [method |-> "GET", email |-> "e1", numWords |-> <<"3">>, body |-> ValidBody(<<>>)]

InitScenario ==
  /\ ProcessReady(ScenarioWords, [e \in {"e1"} |-> "u1"])
  /\ WordStatsTable =
       [k \in {StatKey("u1", "C"), StatKey("u1", "D")} |->
          IF k[2] = "C"
          THEN [attempts |-> 5, success |-> 1, successRatio |-> FormatSuccessRatio(1, 5)]
          ELSE [attempts |-> 5, success |-> 2, successRatio |-> FormatSuccessRatio(2, 5)]]
  /\ InvocationsIdle

NextScenario ==
  \/ HandleRequest(1, ScenarioEvent)
  \/ getUserIdByEmail_Check(1)
  \/ getWords_Query(1)
  \/ getRandomWords_Step(1)
  \/ getWords_Merge(1)

SpecScenario == InitScenario /\ [][NextScenario]_vars

\* ------------------------------------------------------------------ claims: word selection
\* Invocation p has answered a GET request with status 200.
GetAnswered(p) ==
  pc[p] = "done" /\ event[p].method = "GET" /\ response[p].status = 200

\* C2: the request is always filled.  Every list getWords returns holds
\* min(count, number of catalog words) words, whatever the sampler draws.
C2_RequestFilled ==
  \A p \in Invocations :
    GetAnswered(p) =>
      Len(response[p].words) = Min(limit[p], Cardinality(cachedWords))

\* C3: the list getWords returns holds at most count words and no word id
\* twice, whatever the user's statistics and the random draws.
C3_AtMostCountDistinct ==
  \A p \in Invocations :
    GetAnswered(p) =>
      /\ Len(response[p].words) <= limit[p]
      /\ NoDuplicates(response[p].words)

\* C3 witness: a request the catalog could fill was answered, the list
\* starts with a weak word and the sampler drew that word as well.
C3_Witness ==
  /\ GetAnswered(1)
  /\ limit[1] <= Cardinality(cachedWords)
  /\ Len(randomWords[1]) < limit[1]
  /\ response[1].words # <<>>
  /\ response[1].words[1] \in Range(randomWords[1])

\* C4 as stated: with catalog {A,B,C,D,E} and statistics C (0.2), D (0.4),
\* every result of getWords(user, 3) is <<C, D, x>> with x in {A, B, E}.
C4_ScenarioAsStated ==
  GetAnswered(1) =>
    /\ Len(response[1].words) = 3
    /\ response[1].words[1] = "C"
    /\ response[1].words[2] = "D"
    /\ response[1].words[3] \in {"A", "B", "E"}

\* C4 (amended): in that scenario every result of getWords(user, 3) is a
\* list of two or three distinct words whose first element is C and whose
\* other elements are among A, B, D, E.
C4_Scenario ==
  GetAnswered(1) =>
    /\ Len(response[1].words) \in {2, 3}
    /\ response[1].words[1] = "C"
    /\ NoDuplicates(response[1].words)
    /\ \A j \in 2..Len(response[1].words) : response[1].words[j] \in {"A", "B", "D", "E"}

\* C4 witness: the scenario's request was answered with C, D and A.
C4_Witness ==
  /\ GetAnswered(1)
  /\ response[1].words = <<"C", "D", "A">>

\* C10: getRandomWords(n) returns min(n, N) words of the catalog, no word
\* twice, for every range order and every draw; at a position i >= n the
\* index is drawn from 0..i and the reservoir changes only when it is < n.
C10_ReservoirSample ==
  /\ [](\A p \in Invocations :
          (pc[p] = "grw_loop" /\ visited[p] = cachedWords) =>
            /\ Len(randomWords[p]) = Min(RandomLimit(p), Cardinality(cachedWords))
            /\ NoDuplicates(randomWords[p])
            /\ Range(randomWords[p]) \subseteq cachedWords)
  /\ [][\A p \in Invocations :
          (pc[p] = "grw_loop" /\ i'[p] = i[p] + 1 /\ i[p] >= RandomLimit(p)) =>
            /\ r'[p] \in 0..i[p]
            /\ randomWords'[p] # randomWords[p] => r'[p] < RandomLimit(p)
            /\ Len(randomWords'[p]) = Len(randomWords[p])]_vars

\* C10 witness: the loop is over for a sample smaller than the catalog and
\* its last draw replaced a slot of the reservoir.
C10_Witness ==
  /\ pc[1] = "grw_loop"
  /\ visited[1] = cachedWords
  /\ RandomLimit(1) < Cardinality(cachedWords)
  /\ r[1] >= 0
  /\ r[1] < RandomLimit(1)

\* ------------------------------------------------------------------ claims: process start
\* C6: fail-closed start.  After an init() whose scan failed or returned no
\* record, no invocation is dispatched to a handler and none answers.
C6_FailClosedStart ==
  (phase # "start" /\ (scanFails \/ WordsTable = {})) =>
    \A p \in Invocations :
      /\ pc[p] = "idle"
      /\ event[p] = NoEvent
      /\ response[p] = NoResponse

\* C6 witness: the scan returned no record and the first request made
\* HandleRequest end the process.
C6_Witness ==
  /\ phase = "exited"
  /\ ~scanFails
  /\ WordsTable = {}

\* ------------------------------------------------------------------ claims: one update
\* C9: an updateWordStatistics call with no concurrent caller creates the
\* record (1, 1) or (1, 0) when the pair has none, and turns a record (a, s)
\* into (a+1, s+1) for a correct outcome and (a+1, s) otherwise.
C9_SingleUpdate ==
  [][\A p \in Invocations :
       (pc[p] = "uws_update" /\ pc'[p] = "hr_loop") =>
         LET key == StatKey(userId[p], CurrentResult(p).Word)
             gain == IF CurrentResult(p).IsCorrect THEN 1 ELSE 0
         IN /\ key \in DOMAIN WordStatsTable'
            /\ IF key \in DOMAIN WordStatsTable
               THEN /\ WordStatsTable'[key].attempts = WordStatsTable[key].attempts + 1
                    /\ WordStatsTable'[key].success = WordStatsTable[key].success + gain
               ELSE /\ WordStatsTable'[key].attempts = 1
                    /\ WordStatsTable'[key].success = gain]_vars

\* C9 witness: a record that was created by one call and updated by a
\* second, one of the two outcomes correct.
C9_Witness ==
  \E k \in DOMAIN WordStatsTable :
    WordStatsTable[k].attempts = 2 /\ WordStatsTable[k].success = 1

\* ------------------------------------------------------------------ claims: order of the list
\* C11: in the list of an answered GET request the performance-query words
\* (those the catalog holds) come first, in the order the query returned
\* them, and every word after them was added from the random sampler.
C11_WeakWordsFirst ==
  \A p \in Invocations :
    GetAnswered(p) =>
      LET weak == CompleteWords(poorPerformanceWords[p])
          k == Min(Len(weak), Len(response[p].words))
      IN /\ Len(response[p].words) >= Min(Len(weak), limit[p])
         /\ SubSeq(response[p].words, 1, k) = SubSeq(weak, 1, k)
         /\ \A j \in (k + 1)..Len(response[p].words) :
              /\ response[p].words[j] \in Range(randomWords[p])
              /\ response[p].words[j] \notin Range(weak)

\* C11 witness: an answered list of two performance-query words followed
\* by a word of the sampler.
C11_Witness ==
  /\ GetAnswered(1)
  /\ Len(CompleteWords(poorPerformanceWords[1])) = 2
  /\ Len(response[1].words) > 2

\* ------------------------------------------------------------------ authentication lambda
\* part_001:68: uuid.New().String(); every call draws an id no other call
\* or record has.
NewUuid(a) == "uuid-" \o ToString(a)

\* part_001:78-98: PutItem of a record whose key userId is new to the table.
PutUser(table, user) == table \cup {user}

\* part_001:67-77 and 107-125: storeUserIfNotExists up to the answer of
\* getUserByEmail, the query of email-userId-index.
storeUserIfNotExists_Check(a, email) ==
  /\ authPc[a] = "idle"
  /\ authEmail' = [authEmail EXCEPT ![a] = email]
  /\ authUserId' = [authUserId EXCEPT ![a] = NewUuid(a)]
  /\ \/ \* err != nil
        authPc' = [authPc EXCEPT ![a] = "failed"]
     \/ \* user != nil
        /\ UsersByEmail(email) # {}
        /\ authPc' = [authPc EXCEPT ![a] = "stored"]
     \/ \* no item
        /\ UsersByEmail(email) = {}
        /\ authPc' = [authPc EXCEPT ![a] = "put"]
  /\ UNCHANGED <<processVars, storeVars, getVars, postVars, invVars, seedCalls>>

\* part_001:78-104: PutItem and the return.
storeUserIfNotExists_PutItem(a) ==
  /\ authPc[a] = "put"
  /\ \/ \* err != nil
        /\ authPc' = [authPc EXCEPT ![a] = "failed"]
        /\ UNCHANGED UsersTable
     \/ /\ UsersTable' = PutUser(UsersTable, [userId |-> authUserId[a], email |-> authEmail[a]])
        /\ authPc' = [authPc EXCEPT ![a] = "stored"]
  /\ UNCHANGED <<processVars, WordsTable, scanFails, WordStatsTable, usersQueries, getVars,
                 postVars, invVars, authEmail, authUserId, seedCalls>>

\* --- SpecUsers: concurrent calls of the authentication lambda store users
\* while the words lambda, its identity cache cold, resolves emails in one
\* request after the other.
InitUsers ==
  /\ ProcessReady(WordIds, <<>>)
  /\ WordStatsTable = <<>>
  /\ InvocationsIdle

NextUsers ==
  \/ \E a \in AuthCalls, email \in Emails : storeUserIfNotExists_Check(a, email)
  \/ \E a \in AuthCalls : storeUserIfNotExists_PutItem(a)
  \/ \E p \in Invocations :
       \/ /\ \A q \in Invocations : pc[q] \in {"idle", "done"}
          /\ \E ev \in CacheEvents : HandleRequest(p, ev)
       \/ getUserIdByEmail_Check(p)
       \/ getUserIdByEmail_Lock(p)
       \/ getUserIdByEmail_Query(p)
       \/ getUserIdByEmail_Insert(p)
       \/ handleResults_Return(p)

SpecUsers == InitUsers /\ [][NextUsers]_vars

\* ------------------------------------------------------------------ claims: users
\* C12: user uniqueness.  Under any interleaving of concurrent
\* storeUserIfNotExists calls the Users table holds at most one record for
\* an email, and exactly one once a call for it has stored.
C12_OneUserPerEmail ==
  \A email \in Emails :
    /\ Cardinality(UsersByEmail(email)) <= 1
    /\ (\E a \in AuthCalls : authEmail[a] = email /\ authPc[a] = "stored") =>
         Cardinality(UsersByEmail(email)) = 1

\* ------------------------------------------------------------------ claims: random source
\* C13: the random source is seeded once per process: over any sequence of
\* getRandomWords calls of one process at most one rand.Seed call is made.
C13_SeededOncePerProcess == seedCalls <= 1

\* ------------------------------------------------------------------ claims: request validation
\* C14: an authenticated GET request whose numWords is not a number or is
\* <= 0 is answered 400 by the step that receives it; that step queries no
\* store, leaves the identity cache as it was and sets no count.
C14_InvalidCountRejected ==
  [][\A p \in Invocations :
       (/\ pc[p] = "idle"
        /\ event'[p].method = "GET"
        /\ event'[p].email # NoEmail
        /\ event'[p].numWords \in InvalidNumWordsStrs) =>
         /\ pc'[p] = "done"
         /\ response'[p] = [status |-> 400, words |-> <<>>]
         /\ limit'[p] = limit[p]
         /\ UNCHANGED <<storeVars, userCache, userCacheMutex>>]_vars

\* C14 witness: a GET request of a known user with numWords = 0 was
\* answered while the identity cache held no entry.
C14_Witness ==
  /\ pc[1] = "done"
  /\ event[1].method = "GET"
  /\ event[1].email = "e1"
  /\ event[1].numWords = <<"0">>
  /\ response[1].status = 400
  /\ userCache = <<>>

\* C16 as stated: an authenticated GET request with no numWords parameter
\* is answered 400 and returns no words.
C16_MissingCountRejected ==
  \A p \in Invocations :
    (/\ pc[p] = "done"
     /\ event[p].method = "GET"
     /\ event[p].email # NoEmail
     /\ event[p].numWords = <<>>) =>
      /\ response[p].status = 400
      /\ response[p].words = <<>>

\* C16 (amended): an authenticated GET request with no numWords parameter
\* is not rejected for the missing count; it is served as a request for 10
\* words, and when it is answered 200 its list holds at most 10 words.
C16_MissingCountIsTen ==
  /\ [][\A p \in Invocations :
          (/\ pc[p] = "idle"
           /\ event'[p].method = "GET"
           /\ event'[p].email # NoEmail
           /\ event'[p].numWords = <<>>) =>
            /\ pc'[p] = "uc_check"
            /\ limit'[p] = 10
            /\ response'[p] = NoResponse]_vars
  /\ [](\A p \in Invocations :
          (GetAnswered(p) /\ event[p].numWords = <<>>) =>
            /\ limit[p] = 10
            /\ Len(response[p].words) <= 10)

\* C16 witness: a GET request with no numWords was answered 200 with words.
C16_Witness ==
  /\ GetAnswered(1)
  /\ event[1].numWords = <<>>
  /\ response[1].words # <<>>

\* ------------------------------------------------------------------ claims: lookup errors
\* C15: when the query behind the email-to-id lookup fails with a store
\* error (the request ends at the query although the store holds a record
\* for the email), the GET and POST handlers answer 500.
C15_StoreErrorIsServerError ==
  [][\A p \in Invocations :
       (/\ pc[p] = "uc_query"
        /\ pc'[p] = "done"
        /\ UsersByEmail(event[p].email) # {}) =>
         response'[p].status = 500]_vars

\* ------------------------------------------------------------------ claims: not-found
\* C17: not-found is not cached.  A getUserIdByEmail call whose query ends
\* the request (no record, or a failed query) leaves userCache as it was and
\* the handler answers with an error; and every call that resolves an email,
\* also one made after an earlier call found no record, returns the userId
\* of a record the Users table holds for that email.
C17_NotFoundNotCached ==
  /\ [][\A p \in Invocations :
          (pc[p] = "uc_query" /\ pc'[p] = "done") =>
            /\ userCache' = userCache
            /\ response'[p].status = 400]_vars
  /\ [](\A p \in Invocations :
          (pc[p] = "done" /\ response[p].status = 200) =>
            \E u \in UsersByEmail(event[p].email) : u.userId = userId[p])

\* C17 witness: the first request for e2 found no user, the authentication
\* lambda then stored one, and the second request for e2 resolved to it.
C17_Witness ==
  /\ pc[1] = "done" /\ event[1].email = "e2" /\ response[1].status = 400
  /\ usersQueries[1] = 1
  /\ pc[2] = "done" /\ event[2].email = "e2" /\ response[2].status = 200
  /\ \E a \in AuthCalls :
       authPc[a] = "stored" /\ authEmail[a] = "e2" /\ userId[2] = authUserId[a]

\* --- SpecServe: one process from its start, serving concurrent GET and
\* POST requests of user e1.
ServeWords == {"A", "B"}
ServeEvents ==
  [method : {"GET"}, email : {"e1"}, numWords : {<<"2">>, <<"3">>}, body : {ValidBody(<<>>)}]
  \cup [method : {"POST"}, email : {"e1"}, numWords : {<<>>},
        body : {ValidBody(<<res>>) : res \in [Word : {"A"}, IsCorrect : BOOLEAN]}]

InitServe ==
  /\ phase = "start"
  /\ initErr = FALSE
  /\ cachedWords = {}
  /\ userCache = <<>>
  /\ userCacheMutex = 0
  /\ seedCalls = 0
  /\ WordsTable \in {{}, ServeWords}
  /\ scanFails \in BOOLEAN
  /\ UsersTable = InitialUsers
  /\ WordStatsTable = <<>>
  /\ usersQueries = [p \in Invocations |-> 0]
  /\ InvocationsIdle

NextServe ==
  \/ init
  \/ \E p \in Invocations :
       \/ \E ev \in ServeEvents : HandleRequest(p, ev)
       \/ getUserIdByEmail_Check(p)
       \/ getUserIdByEmail_Lock(p)
       \/ getUserIdByEmail_Query(p)
       \/ getUserIdByEmail_Insert(p)
       \/ getWords_Query(p)
       \/ getRandomWords_Step(p)
       \/ getWords_Merge(p)
       \/ updateWordStatistics_GetItem(p)
       \/ updateWordStatistics_UpdateItem(p)
       \/ handleResults_Return(p)

SpecServe == InitServe /\ [][NextServe]_vars

\* ------------------------------------------------------------------ claims: catalog cache
\* C18: cachedWords is written only by init().  Once init() has run, no
\* step of a GET or POST request, in any interleaving, changes cachedWords,
\* and it holds exactly the records the scan returned.
C18_CatalogWrittenAtInitOnly ==
  /\ [][phase # "start" => cachedWords' = cachedWords]_vars
  /\ [](phase # "start" => cachedWords = (IF scanFails THEN {} ELSE WordsTable))

\* C18 witness: a GET and a POST request that ran concurrently have both
\* been answered and the catalog cache still holds the scanned records.
C18_Witness ==
  /\ GetAnswered(1)
  /\ allWords[1] # <<>>
  /\ pc[2] = "done" /\ event[2].method = "POST" /\ response[2].status = 200
  /\ WordStatsTable # <<>>
  /\ cachedWords = ServeWords

\* ------------------------------------------------------------------ claims: one write
\* C19: one outcome is applied all-or-nothing.  Every step that changes the
\* statistics table is the UpdateItem of one invocation; it changes the
\* record of that invocation's key only and stores attempts, success and
\* successRatio together: the attempts count the outcome, the success holds
\* the outcome's gain and the ratio is that of the stored success and
\* attempts.  A failed UpdateItem leaves the table as it was.
C19_AllOrNothing ==
  [][/\ WordStatsTable' # WordStatsTable =>
          \E p \in Invocations :
            /\ pc[p] = "uws_update"
            /\ pc'[p] = "hr_loop"
            /\ LET key == StatKey(userId[p], CurrentResult(p).Word)
                   gain == IF CurrentResult(p).IsCorrect THEN 1 ELSE 0
                   new == WordStatsTable'[key]
               IN /\ DOMAIN WordStatsTable' = DOMAIN WordStatsTable \cup {key}
                  /\ \A k \in DOMAIN WordStatsTable : k # key => WordStatsTable'[k] = WordStatsTable[k]
                  /\ new.attempts >= 1
                  /\ new.success - gain >= 0
                  /\ new.success - gain <= new.attempts - 1
                  /\ Abs(new.successRatio * new.attempts - new.success * 1000000)
                       < new.attempts
     /\ \A p \in Invocations :
          (pc[p] = "uws_update" /\ pc'[p] = "done") =>
            /\ response'[p].status = 500
            /\ WordStatsTable' = WordStatsTable]_vars

\* C19 witness: a POST request stored its first outcome and was answered
\* 500 at its second, whose in-memory record never reached the table.
C19_Witness ==
  \E p \in Invocations :
    /\ pc[p] = "done"
    /\ response[p].status = 500
    /\ i[p] = 2
    /\ StatKey("u1", "A") \in DOMAIN WordStatsTable
    /\ wordStats[p].attempts > WordStatsTable[StatKey("u1", "A")].attempts

\* ------------------------------------------------------------------ claims: performance query
\* The successRatio stored for a word of a user.
RatioOf(userID, word) == WordStatsTable[StatKey(userID, word)].successRatio

\* What a getPoorPerformanceWords(userId, count) call that returns without an
\* error returns: the query gave the min(floor(count / 2), number of the
\* user's statistics) statistics of the user with the lowest successRatio,
\* in non-decreasing successRatio order; the words are those of them the
\* catalog holds, at most floor(count / 2); none for a user with no
\* statistics.
PoorPerformanceResult ==
  [][\A p \in Invocations :
       (pc[p] = "gw_query" /\ pc'[p] # "gw_query" /\ response'[p].status # 500) =>
         LET items == poorPerformanceWords'[p]
             stats == UserStatWords(userId[p])
         IN /\ Len(CompleteWords(items)) <= limit[p] \div 2
            /\ Len(items) = Min(limit[p] \div 2, Cardinality(stats))
            /\ NoDuplicates(items)
            /\ Range(items) \subseteq stats
            /\ \A j, k \in 1..Len(items) :
                 j < k => RatioOf(userId[p], items[j]) <= RatioOf(userId[p], items[k])
            /\ \A w \in stats \ Range(items) :
                 \A j \in 1..Len(items) : RatioOf(userId[p], items[j]) <= RatioOf(userId[p], w)
            /\ stats = {} => CompleteWords(items) = <<>>]_vars

\* Whenever getPoorPerformanceWords is about to be called for a user with no
\* statistics, its return without an error is possible (only a failure of
\* the store can make it return one).
NoStatisticsIsNoError ==
  [](\A p \in Invocations :
       (phase = "ready" /\ pc[p] = "gw_query" /\ UserStatWords(userId[p]) = {}) =>
         ENABLED (getWords_Query(p) /\ response'[p].status # 500))

\* C20: getPoorPerformanceWords(userId, count) returns at most
\* floor(count / 2) words, the user's statistics with the lowest successRatio
\* in non-decreasing successRatio order mapped through the catalog, and for
\* a user with no statistics it returns an empty list and no error.
C20_PoorPerformanceWords == PoorPerformanceResult /\ NoStatisticsIsNoError

\* ------------------------------------------------------------------ claims: data drift
\* C21: every word of the list an answered GET request returns is an entry
\* of cachedWords; a statistic whose word the catalog does not hold is
\* skipped: the request that met it is answered 200 all the same.
C21_OnlyCatalogWords ==
  /\ [](\A p \in Invocations :
          GetAnswered(p) => Range(response[p].words) \subseteq cachedWords)
  /\ [][\A p \in Invocations :
          (/\ pc[p] = "gw_query"
           /\ poorPerformanceWords'[p] # poorPerformanceWords[p]
           /\ ~(Range(poorPerformanceWords'[p]) \subseteq cachedWords)) =>
            /\ response'[p].status \in {0, 200}
            /\ Range(allWords'[p]) \subseteq cachedWords]_vars

\* C21 witness: statistics were recorded for C, which the catalog does not
\* hold; the performance query of a later GET returned C and the request was
\* answered with words.
C21_Witness ==
  /\ GetAnswered(1)
  /\ "C" \notin cachedWords
  /\ "C" \in Range(poorPerformanceWords[1])
  /\ response[1].words # <<>>

\* ------------------------------------------------------------------ store-side increment variant
\* src/lambdas/words/main.go:283-318: updateWordStatistics as one UpdateItem
\* with the update expression
\*   SET attempts = if_not_exists(attempts, :zero) + :inc,
\*       success = if_not_exists(success, :zero) + :successInc,
\*       successRatio = (success + :successInc) / (attempts + :inc)
\* An operand is [kind, path, n]: "ifne" is if_not_exists(path, n), "val" is
\* the value n, "sum" is the parenthesised path + n.
StoreSideExpression(isCorrect) ==
  LET successInc == IF isCorrect THEN 1 ELSE 0
  IN << [path |-> "attempts", op |-> "+",
         left |-> [kind |-> "ifne", path |-> "attempts", n |-> 0],
         right |-> [kind |-> "val", path |-> "", n |-> 1]],
        [path |-> "success", op |-> "+",
         left |-> [kind |-> "ifne", path |-> "success", n |-> 0],
         right |-> [kind |-> "val", path |-> "", n |-> successInc]],
        [path |-> "successRatio", op |-> "/",
         left |-> [kind |-> "sum", path |-> "success", n |-> successInc],
         right |-> [kind |-> "sum", path |-> "attempts", n |-> 1]] >>

\* The operators DynamoDB has in the value of a SET action.
SetOperators == {"+", "-"}

\* The attributes of the item stored under a key (none when there is no item).
ItemAt(table, key) == IF key \in DOMAIN table THEN table[key] ELSE <<>>

\* Whether DynamoDB can evaluate an operand on the item as it is before the
\* update: a path outside if_not_exists must be an attribute of the item.
OperandDefined(item, o) == o.kind = "sum" => o.path \in DOMAIN item

\* Whether UpdateItem takes the expression for the item: every action uses
\* an operator of SET and operands the item defines.  Otherwise the call
\* returns a ValidationException and the item stays as it was.
ExpressionAccepted(item, expr) ==
  \A c \in 1..Len(expr) :
    /\ expr[c].op \in SetOperators
    /\ OperandDefined(item, expr[c].left)
    /\ OperandDefined(item, expr[c].right)

\* The value of an operand on the item as it is before the update.
EvalOperand(item, o) ==
  CASE o.kind = "ifne" -> IF o.path \in DOMAIN item THEN item[o.path] ELSE o.n
    [] o.kind = "val" -> o.n
    [] OTHER -> item[o.path] + o.n

\* The item after the SET actions of an accepted expression.
ApplySet(item, expr) ==
  LET set == {expr[c].path : c \in 1..Len(expr)}
      clause(a) == expr[CHOOSE c \in 1..Len(expr) : expr[c].path = a]
      value(a) == IF clause(a).op = "+"
                  THEN EvalOperand(item, clause(a).left) + EvalOperand(item, clause(a).right)
                  ELSE EvalOperand(item, clause(a).left) - EvalOperand(item, clause(a).right)
  IN [a \in DOMAIN item \cup set |-> IF a \in set THEN value(a) ELSE item[a]]

\* src/lambdas/words/main.go:211-246: handleResults of the variant up to its
\* loop: the email of the authorizer, getUserIdByEmail (a query of the Users
\* table on every request, no cache) and the request body.
handleResults_StoreSide(p, ev) ==
  /\ phase = "ready"
  /\ pc[p] = "idle"
  /\ ev.method = "POST"
  /\ event' = [event EXCEPT ![p] = ev]
  /\ UNCHANGED <<processVars, WordsTable, scanFails, UsersTable, WordStatsTable, getVars,
                 wordStats, authVars, seedCalls>>
  /\ IF ev.email = NoEmail
     THEN /\ Respond(p, 401, <<>>)
          /\ pc' = [pc EXCEPT ![p] = "done"]
          /\ UNCHANGED <<usersQueries, userId, i>>
     ELSE /\ usersQueries' = [usersQueries EXCEPT ![p] = @ + 1]
          /\ \/ \* err != nil || userId == nil
                /\ Respond(p, 400, <<>>)
                /\ pc' = [pc EXCEPT ![p] = "done"]
                /\ UNCHANGED <<userId, i>>
             \/ \E u \in UsersByEmail(ev.email) :
                  /\ userId' = [userId EXCEPT ![p] = u.userId]
                  /\ IF ~ev.body.valid
                     THEN /\ Respond(p, 400, <<>>)
                          /\ pc' = [pc EXCEPT ![p] = "done"]
                          /\ UNCHANGED i
                     ELSE /\ i' = [i EXCEPT ![p] = 1]
                          /\ pc' = [pc EXCEPT ![p] = "ss_loop"]
                          /\ UNCHANGED response

\* src/lambdas/words/main.go:283-318: updateWordStatistics of the variant,
\* one UpdateItem and no read before it.
updateWordStatistics_StoreSide(p) ==
  /\ phase = "ready"
  /\ pc[p] = "ss_loop"
  /\ i[p] <= Len(event[p].body.results)
  /\ UNCHANGED <<processVars, WordsTable, scanFails, UsersTable, usersQueries, getVars,
                 event, userId, wordStats, authVars, seedCalls>>
  /\ LET key == StatKey(userId[p], CurrentResult(p).Word)
         expr == StoreSideExpression(CurrentResult(p).IsCorrect)
     IN \/ \* err != nil: the item is as it was, handleResults answers 500
           /\ Respond(p, 500, <<>>)
           /\ pc' = [pc EXCEPT ![p] = "done"]
           /\ UNCHANGED <<WordStatsTable, i>>
        \/ /\ ExpressionAccepted(ItemAt(WordStatsTable, key), expr)
           /\ WordStatsTable' =
                UpdateItemSet(WordStatsTable, key, ApplySet(ItemAt(WordStatsTable, key), expr))
           /\ i' = [i EXCEPT ![p] = i[p] + 1]
           /\ pc' = [pc EXCEPT ![p] = "ss_loop"]
           /\ UNCHANGED response

\* src/lambdas/words/main.go:256-259: every result is applied.
handleResults_StoreSide_Return(p) ==
  /\ phase = "ready"
  /\ pc[p] = "ss_loop"
  /\ i[p] > Len(event[p].body.results)
  /\ Respond(p, 200, <<>>)
  /\ pc' = [pc EXCEPT ![p] = "done"]
  /\ UNCHANGED <<processVars, storeVars, getVars, postVars, event, userId, authVars,
                 seedCalls>>

\* --- SpecStoreSide: concurrent POST requests handled by the variant, the
\* statistics table empty or holding a record of user u1 for A.
StoreSideEvents ==
  [method : {"POST"}, email : {"e1", NoEmail}, numWords : {<<>>},
   body : {InvalidBody}
          \cup {ValidBody(s) : s \in SeqsUpTo([Word : StatsWords, IsCorrect : BOOLEAN], MaxBatch)}]

InitStoreSide ==
  /\ ProcessReady(WordIds, <<>>)
  /\ WordStatsTable \in
       {<<>>,
        [k \in {StatKey("u1", "A")} |->
           [attempts |-> 1, success |-> 1, successRatio |-> FormatSuccessRatio(1, 1)]]}
  /\ InvocationsIdle

NextStoreSide ==
  \E p \in Invocations :
    \/ pc[p] = "idle" /\ \E ev \in StoreSideEvents :
         /\ OutcomesBy(NumInvocations) + Len(ev.body.results) <= MaxOutcomes
         /\ handleResults_StoreSide(p, ev)
    \/ updateWordStatistics_StoreSide(p)
    \/ handleResults_StoreSide_Return(p)

SpecStoreSide == InitStoreSide /\ [][NextStoreSide]_vars

\* ------------------------------------------------------------------ claims: store-side increment
\* Invocation p of the variant is about to call updateWordStatistics.
AtStoreSideUpdate(p) ==
  phase = "ready" /\ pc[p] = "ss_loop" /\ i[p] <= Len(event[p].body.results)

\* The step is an updateWordStatistics call of p that returned no error.
StoreSideUpdated(p) ==
  pc[p] = "ss_loop" /\ pc'[p] = "ss_loop" /\ i'[p] = i[p] + 1

\* C22: in the variant every outcome is applied by its one UpdateItem, as an
\* increment of the record the store holds at that moment (attempts + 1,
\* success + 1 for a correct outcome), so that N concurrent calls for a pair
\* leave attempts and success raised by N and by the number of correct
\* outcomes; and the store operation of a call can apply its outcome.
C22_StoreSideIncrements ==
  /\ [][\A p \in Invocations :
          StoreSideUpdated(p) =>
            LET key == StatKey(userId[p], CurrentResult(p).Word)
                old == IF key \in DOMAIN WordStatsTable THEN WordStatsTable[key] ELSE NoStats
                gain == IF CurrentResult(p).IsCorrect THEN 1 ELSE 0
            IN /\ key \in DOMAIN WordStatsTable'
               /\ WordStatsTable'[key].attempts = old.attempts + 1
               /\ WordStatsTable'[key].success = old.success + gain]_vars
  /\ [](\A p \in Invocations :
          AtStoreSideUpdate(p) =>
            ENABLED (updateWordStatistics_StoreSide(p) /\ pc'[p] = "ss_loop"))

\* C23: in the variant, after every update that returned no error the stored
\* successRatio is the quotient of the stored success and attempts, and the
\* first outcome of a pair creates its record: a call for a pair without a
\* record can return without error and leaves attempts = 1 and success = 1
\* or 0 with that ratio.
C23_StoreSideRatio ==
  /\ [][\A p \in Invocations :
          StoreSideUpdated(p) =>
            LET key == StatKey(userId[p], CurrentResult(p).Word)
                new == WordStatsTable'[key]
            IN /\ key \in DOMAIN WordStatsTable'
               /\ Abs(new.successRatio * new.attempts - new.success * 1000000) < new.attempts
               /\ key \notin DOMAIN WordStatsTable =>
                    /\ new.attempts = 1
                    /\ new.success = (IF CurrentResult(p).IsCorrect THEN 1 ELSE 0)]_vars
  /\ [](\A p \in Invocations :
          (/\ AtStoreSideUpdate(p)
           /\ StatKey(userId[p], CurrentResult(p).Word) \notin DOMAIN WordStatsTable) =>
            ENABLED (updateWordStatistics_StoreSide(p) /\ i'[p] = i[p] + 1))

\* ------------------------------------------------------------------ claims: cache races
\* C24: identity cache accesses never race.  No invocation is at its read of
\* userCache made without the mutex while another invocation is at its
\* insert into the map, and the runtime never stops the process for a
\* concurrent map read and map write.
C24_NoCacheRace ==
  /\ \A p \in Invocations : pc[p] = "uc_check" => MapWriters(p) = {}
  /\ phase # "crashed"

\* ------------------------------------------------------------------ claims: cache entries
\* C25: identity cache entries are stable and valid.  An entry of userCache
\* is never changed or removed, no invocation queries the Users table for
\* an email userCache holds, and every cached id is the userId of a Users
\* record with that email.
C25_CacheEntriesStable ==
  /\ [][/\ \A e \in DOMAIN userCache :
             e \in DOMAIN userCache' /\ userCache'[e] = userCache[e]
        /\ \A p \in Invocations :
             usersQueries'[p] > usersQueries[p] => event[p].email \notin DOMAIN userCache]_vars
  /\ [](\A e \in DOMAIN userCache :
          \E u \in UsersByEmail(e) : u.userId = userCache[e])

\* C25 witness: two requests for e1 were answered; the one that missed the
\* cache before the other's insert did not query the Users table.
C25_Witness ==
  /\ "e1" \in DOMAIN userCache
  /\ \A p \in Invocations : pc[p] = "done" /\ event[p].email = "e1" /\ response[p].status = 200
  /\ usersQueries[1] = 1
  /\ usersQueries[2] = 0

\* ------------------------------------------------------------------ claims: batch
\* The statistics table after the results have been applied to it one after
\* the other, in the order of the list, for one user.
RECURSIVE AppliedInOrder(_, _, _)
AppliedInOrder(table, userID, results) ==
  IF results = <<>> THEN table
  ELSE LET key == StatKey(userID, Head(results).Word)
           old == IF key \in DOMAIN table THEN table[key] ELSE NoStats
           attempts == old.attempts + 1
           success == old.success + (IF Head(results).IsCorrect THEN 1 ELSE 0)
           new == [attempts |-> attempts, success |-> success,
                   successRatio |-> FormatSuccessRatio(success, attempts)]
       IN AppliedInOrder([k \in DOMAIN table \cup {key} |-> IF k = key THEN new ELSE table[k]],
                         userID, Tail(results))

\* C26: a POST batch is applied in list order and stops at the first store
\* failure.  When the only request a process has served is a POST that was
\* answered with its loop at the k-th result, the table is the empty table
\* with the first k-1 results applied in order and nothing else; the answer
\* is 500 when the k-th result is one of the list (its update failed) and
\* 200 when the list was exhausted.
C26_BatchStopsAtFirstFailure ==
  \A p \in Invocations :
    (/\ pc[p] = "done"
     /\ event[p].method = "POST"
     /\ \A q \in Invocations \ {p} : pc[q] = "idle") =>
       LET results == event[p].body.results
           k == i[p]
       IN /\ k \in 1..(Len(results) + 1)
          /\ WordStatsTable = AppliedInOrder(<<>>, userId[p], SubSeq(results, 1, k - 1))
          /\ response[p].status = (IF k <= Len(results) THEN 500 ELSE 200)

\* C26 witness: a batch of two results failed at the second; the first
\* (a correct answer) is in the table, the second is not, the answer is 500.
C26_Witness ==
  /\ pc[1] = "done"
  /\ pc[2] = "idle"
  /\ Len(event[1].body.results) = 2
  /\ event[1].body.results[1].IsCorrect
  /\ ~event[1].body.results[2].IsCorrect
  /\ i[1] = 2
  /\ response[1].status = 500
  /\ WordStatsTable[StatKey("u1", "A")].attempts = 1
  /\ WordStatsTable[StatKey("u1", "A")].success = 1

\* ------------------------------------------------------------------ claims: the lock
\* The invocation is inside getUserIdByEmail.
InGetUserIdByEmail(p) == pc[p] \in {"uc_check", "uc_lock", "uc_query", "uc_insert"}

\* The mutex is held only by an invocation between its Lock and its return.
MutexHeldInside ==
  userCacheMutex # 0 => pc[userCacheMutex] \in {"uc_query", "uc_insert"}

\* C27: the identity-cache lock is released on every path of
\* getUserIdByEmail, and under fair scheduling, with every store query
\* returning, every concurrent getUserIdByEmail call eventually returns.
C27_EveryCallReturns ==
  /\ [](MutexHeldInside)
  /\ \A p \in Invocations : InGetUserIdByEmail(p) ~> ~InGetUserIdByEmail(p)

\* What the code keeps of C27: the mutex is released on every path, and a
\* call returns unless the runtime stopped the process at an unlocked read
\* of the map that met a write.
C27_ReturnsUnlessStopped ==
  /\ [](MutexHeldInside)
  /\ \A p \in Invocations :
       InGetUserIdByEmail(p) ~> (~InGetUserIdByEmail(p) \/ phase = "crashed")

\* ------------------------------------------------------------------ claims: GET writes nothing
\* The step is one of a GET request: its arrival or a step of its handling.
GetStep == event'[1].method = "GET"

\* The identity cache is as it was or has one more entry, for the email of
\* the request.
CacheSameOrOneMore ==
  \/ userCache' = userCache
  \/ /\ event'[1].email \notin DOMAIN userCache
     /\ DOMAIN userCache' = DOMAIN userCache \cup {event'[1].email}
     /\ \A e \in DOMAIN userCache : userCache'[e] = userCache[e]

\* No step of a GET request changes a table of the store or the word
\* catalog cache; the identity cache gets at most the entry of the request's
\* email, and the mutex is free again when the request is answered.
GetWritesNoTable ==
  GetStep =>
    /\ WordStatsTable' = WordStatsTable
    /\ UsersTable' = UsersTable
    /\ WordsTable' = WordsTable
    /\ cachedWords' = cachedWords
    /\ CacheSameOrOneMore
    /\ pc'[1] = "done" => userCacheMutex' = 0

C28_GetWritesNoTable == [][GetWritesNoTable]_vars
====
